---- MODULE Spec2Model ----
(***************************************************************************)
(* dostuff: a declarative configuration runner.                            *)
(*                                                                         *)
(* src/dostuff/commands.py defines the commands (Nothing, Check, File,     *)
(* Package, Service, User), their validate() and their coroutine do();     *)
(* src/test.py builds a list of commands, validates them all, and, when    *)
(* no ValidationError was collected, runs every do() under asyncio.gather. *)
(*                                                                         *)
(* The model follows the script: the list is built one constructor         *)
(* expression at a time, the validation loop visits one command per step,  *)
(* and the event loop runs one task step at a time.  A task step runs a    *)
(* coroutine up to its next suspension point (asyncio.sleep, the           *)
(* subprocess inside run) or to its end.                                   *)
(***************************************************************************)
EXTENDS Integers, Sequences, FiniteSets, TLC

(***************************************************************************)
(* Bounds of the model.                                                    *)
(***************************************************************************)
\* longest command list of the engine specification (Spec)
MaxCommands == 3
\* longest command list of the Package specification (SpecPackage)
MaxPkgCommands == 3
\* package names are 1..MaxPkgNames, standing for "p1", "p2", ...
MaxPkgNames == 2
\* longest command list of the Service specification (SpecService)
MaxSvcCommands == 2

(***************************************************************************)
(* Values.                                                                 *)
(***************************************************************************)
\* Python's None, as a result of do() and as an absent argument
None == [tag |-> "None"]

\* commands.py:10
Ok(changed) == [tag |-> "Ok", changed |-> changed]

\* commands.py:9
Error(reason) == [tag |-> "Error", reason |-> reason]

\* an exception leaving a coroutine
Raise(exc) == [tag |-> "raise", exc |-> exc]

\* a coroutine that has not finished has no result yet
Pending == [tag |-> "pending"]

\* config_result.changed (commands.py:140): only Ok has the attribute
HasChanged(result) == result.tag = "Ok"

(***************************************************************************)
(* Paths: pathlib.Path as the sequence of its parts, "/" first when the    *)
(* path is absolute.  NoPath is the None of Check(exists=None).            *)
(***************************************************************************)
NoPath == <<>>

is_absolute(path) == Len(path) > 0 /\ path[1] = "/"

\* pathlib's .name: the final component, empty for the root
name(path) ==
    IF Len(path) = 0 \/ path[Len(path)] = "/" THEN "" ELSE path[Len(path)]

\* the paths that exist on the host (Check.do asks pathlib for this)
ExistingPaths == {<<"/", "present">>}

exists(path) == path \in ExistingPaths

(***************************************************************************)
(* Construction.  A store holds what constructors read and write: the      *)
(* class attributes Package.packages and Package._instance, and the next   *)
(* fresh object identity.  A constructor yields the new store, the object, *)
(* and ok = FALSE when one of its assert statements fails.                 *)
(***************************************************************************)
\* commands.py:123: the default argument Nothing() is built once, when the
\* function is defined, and shared by every Service
DefaultNothing == [id |-> 1, kind |-> "Nothing"]

FirstId == 2

Built(st, obj) == [st |-> st, ok |-> TRUE, obj |-> obj]

AssertionFailed(st) == [st |-> st, ok |-> FALSE, obj |-> None]

Alloc(st) == [st EXCEPT !.nextId = @ + 1]

Nothing_init(st) ==
    Built(Alloc(st), [id |-> st.nextId, kind |-> "Nothing"])

Check_init(st, path, reason) ==
    Built(Alloc(st), [id |-> st.nextId, kind |-> "Check",
                      exists |-> path, reason |-> reason])

\* a faulty __init__ without the assert (tests C14)
File_init_unchecked(st, destination, source) ==
    Built(Alloc(st),
          [id |-> st.nextId, kind |-> "File", destination |-> destination,
           source |-> IF source = NoPath THEN <<name(destination)>> ELSE source])

\* commands.py:67-74
File_init(st, destination, source) ==
    IF ~is_absolute(destination)
    THEN AssertionFailed(st)
    ELSE Built(Alloc(st),
               [id |-> st.nextId, kind |-> "File",
                destination |-> destination,
                source |-> IF source = NoPath
                           THEN <<name(destination)>>
                           ELSE source])

\* a faulty __new__ that makes a new object at every call (tests C19)
Package_new_fresh(st, names, action) ==
    IF action \notin DOMAIN st.packages
    THEN AssertionFailed(st)
    ELSE Built([Alloc(st) EXCEPT !.instance = st.nextId,
                                 !.packages[action] = @ \cup names],
               [id |-> st.nextId, kind |-> "Package"])

\* a faulty __new__ that assigns the names instead of merging them (tests C4)
Package_new_replace(st, names, action) ==
    IF action \notin DOMAIN st.packages
    THEN AssertionFailed(st)
    ELSE LET st1 == IF st.instance = 0
                    THEN [Alloc(st) EXCEPT !.instance = st.nextId]
                    ELSE st
         IN  Built([st1 EXCEPT !.packages[action] = names],
                   [id |-> st1.instance, kind |-> "Package"])

\* commands.py:93-100
Package_new(st, names, action) ==
    IF action \notin DOMAIN st.packages
    THEN AssertionFailed(st)
    ELSE LET st1 == IF st.instance = 0
                    THEN [Alloc(st) EXCEPT !.instance = st.nextId]
                    ELSE st
         IN  Built([st1 EXCEPT !.packages[action] = @ \cup names],
                   [id |-> st1.instance, kind |-> "Package"])

Service_init(st, nm, action, config, file) ==
    Built(Alloc(st), [id |-> st.nextId, kind |-> "Service", name |-> nm,
                      action |-> action, config |-> config, file |-> file])

User_init(st, nm, homedir, system) ==
    Built(Alloc(st), [id |-> st.nextId, kind |-> "User", name |-> nm,
                      homedir |-> homedir, system |-> system])

(***************************************************************************)
(* Constructor expressions, as written in a command list (test.py:6-15).   *)
(***************************************************************************)
NothingE == [e |-> "Nothing"]
CheckE(path) == [e |-> "Check", exists |-> path, reason |-> "None"]
FileE(destination) == [e |-> "File", destination |-> destination, source |-> NoPath]
\* File(destination, source)
FileFromE(destination, source) ==
    [e |-> "File", destination |-> destination, source |-> source]
PackageE(names, action) == [e |-> "Package", names |-> names, action |-> action]
\* Package(*names) with no action given
NoAction == ""
\* commands.py:93: action='install' is the default
ActionOrDefault(action) == IF action = NoAction THEN "install" ELSE action
UserE(nm) == [e |-> "User", name |-> nm, homedir |-> TRUE, system |-> TRUE]
DefaultE == [e |-> "default"]
ServiceE(nm, action, config, file) ==
    [e |-> "Service", name |-> nm, action |-> action, config |-> config, file |-> file]

\* evaluation of a constructor expression; the arguments of Service(...) are
\* evaluated first, config before file
RECURSIVE New(_, _)
New(st, e) ==
    CASE e.e = "Nothing" -> Nothing_init(st)
      [] e.e = "Check"   -> Check_init(st, e.exists, e.reason)
      [] e.e = "File"    -> File_init(st, e.destination, e.source)
      [] e.e = "Package" -> Package_new(st, e.names, ActionOrDefault(e.action))
      [] e.e = "User"    -> User_init(st, e.name, e.homedir, e.system)
      [] e.e = "default" -> Built(st, DefaultNothing)
      [] e.e = "Service" ->
            LET c == New(st, e.config) IN
            IF ~c.ok THEN c ELSE
            LET f == New(c.st, e.file) IN
            IF ~f.ok THEN f ELSE
            Service_init(f.st, e.name, e.action, c.obj, f.obj)

(***************************************************************************)
(* validate().  A problem is the ValidationError raised; NoProblem is a    *)
(* return without an exception.                                            *)
(***************************************************************************)
NoProblem == [msg |-> "", names |-> {}]

ValidationError(msg, names) == [msg |-> msg, names |-> names]

\* commands.py:39-40
Command_validate(self) == NoProblem

\* commands.py:61-63
Check_validate(self) ==
    IF self.exists = NoPath
    THEN ValidationError("--exists was not specified", {})
    ELSE NoProblem

\* a faulty validate that looks at the install set alone (tests C6)
Package_validate_install(pkgs) ==
    IF pkgs["install"] # {}
    THEN ValidationError("packages being both installed and removed", pkgs["install"])
    ELSE NoProblem

\* commands.py:116-119
Package_validate(pkgs) ==
    LET duplicate_packages == pkgs["install"] \cap pkgs["remove"] IN
    IF duplicate_packages # {}
    THEN ValidationError("packages being both installed and removed",
                         duplicate_packages)
    ELSE NoProblem

\* method resolution: Check and Package override validate, the others
\* inherit Command.validate
validate(self, pkgs) ==
    CASE self.kind = "Check"   -> Check_validate(self)
      [] self.kind = "Package" -> Package_validate(pkgs)
      [] OTHER                 -> Command_validate(self)

(***************************************************************************)
(* Coroutines.  Calling do() makes a coroutine object; nothing of its body *)
(* runs until it is awaited or stepped by a task.  The heap h holds the    *)
(* coroutine objects, the lru_cache of Package.do and Package.packages.    *)
(*   cmd    the command whose do() this is                                 *)
(*   pc     "new", a suspension point, or "done"                           *)
(*   by     the coroutine awaiting this one, 0 when a task steps it        *)
(*   role   the sub-command ("config", "file") it is awaited as, else ""   *)
(*   child  the coroutine this one is awaiting (Service), else 0           *)
(*   step   how many sub-commands a Service has awaited                    *)
(*   cfg    Service.do's local config_result                               *)
(*   log    what the coroutine did: <<"run", args>> when it invoked the    *)
(*          shim, <<"ran", args>> when the shim returned, <<"begin", s>>   *)
(*          and <<"end", s>> around a Service's await of sub-command s     *)
(*   res    the value returned, or the exception raised                    *)
(***************************************************************************)
NewCoro(cmd) ==
    [cmd |-> cmd, pc |-> "new", by |-> 0, role |-> "", child |-> 0, step |-> 0,
     cfg |-> Pending, log |-> <<>>, res |-> Pending]

Finished(co) == co.pc = "done"

Return(h, c, value) == [h EXCEPT !.coros[c].pc = "done", !.coros[c].res = value]

Log(h, c, ev) == [h EXCEPT !.coros[c].log = Append(@, ev)]

\* commands.py:13-23, up to the first suspension: the subprocess is created
\* with the given arguments and the caller waits for it
run_call(h, c, args, label) ==
    [Log(h, c, <<"run", args>>) EXCEPT !.coros[c].pc = label]

\* commands.py:20-23: the subprocess has ended and run returns
run_return(h, c, args) == Log(h, c, <<"ran", args>>)

\* commands.py:102
maxsize == 1

AllocCoro(h, cmd) ==
    [h |-> [h EXCEPT !.coros = Append(@, NewCoro(cmd))], id |-> Len(h.coros) + 1]

\* Package.do without its cache: every call a new coroutine (tests C2)
lru_cache_off(h, self) == AllocCoro(h, self)

\* functools.lru_cache around Package.do (commands.py:102-103): a hit returns
\* the cached coroutine object, a miss calls do and caches what it returns,
\* dropping the least recently used entry when full
lru_cache(h, self) ==
    LET hits == {n \in 1..Len(h.cache) : h.cache[n].key = self.id} IN
    IF hits # {}
    THEN LET n == CHOOSE m \in hits : TRUE
             rest == SubSeq(h.cache, 1, n - 1) \o SubSeq(h.cache, n + 1, Len(h.cache))
         IN  [h |-> [h EXCEPT !.cache = Append(rest, h.cache[n])],
              id |-> h.cache[n].value]
    ELSE LET a == AllocCoro(h, self)
             kept == IF Len(h.cache) >= maxsize THEN Tail(h.cache) ELSE h.cache
         IN  [h |-> [a.h EXCEPT !.cache = Append(kept, [key |-> self.id, value |-> a.id])],
              id |-> a.id]

\* self.do(): the coroutine object the call returns
Call(h, self) ==
    IF self.kind = "Package" THEN lru_cache(h, self) ELSE AllocCoro(h, self)

\* sorted(): ascending
RECURSIVE sorted(_)
sorted(S) ==
    IF S = {} THEN <<>>
    ELSE LET least == CHOOSE x \in S : \A y \in S : x <= y
         IN  <<least>> \o sorted(S \ {least})

\* commands.py:43-45
Nothing_do(h, c) == Return(h, c, None)

\* commands.py:54-59.  Line 59 reads the name reason, which is bound neither
\* in do nor in the module: evaluating it raises NameError.  Without a path
\* the body falls off its end and returns None.
Check_do(h, c) ==
    LET self == h.coros[c].cmd IN
    IF self.exists # NoPath
    THEN IF exists(self.exists)
         THEN Return(h, c, Ok(FALSE))
         ELSE Return(h, c, Raise("NameError"))
    ELSE Return(h, c, None)

\* a faulty argument order (tests C13)
cp_args_swapped(self) == <<"cp", self.destination, self.source>>

\* commands.py:78-82
cp_args(self) == <<"cp", self.source, self.destination>>

\* commands.py:76-83
File_do(h, c) ==
    LET co == h.coros[c] IN
    CASE co.pc = "new"   -> [h EXCEPT !.coros[c].pc = "sleep"]
      [] co.pc = "sleep" -> run_call(h, c, cp_args(co.cmd), "cp")
      [] co.pc = "cp"    -> Return(run_return(h, c, cp_args(co.cmd)), c, Ok(TRUE))

pacman_args(flags, pkgs) == <<"pacman", flags>> \o sorted(pkgs)

\* a faulty loop list that installs before it removes (tests C15)
Package_loop_install_first == <<[flags |-> "-S", action |-> "install"],
                                [flags |-> "-Rs", action |-> "remove"]>>

\* commands.py:104-107: the (flags, packages) pairs in loop order
Package_loop == <<[flags |-> "-Rs", action |-> "remove"],
                  [flags |-> "-S", action |-> "install"]>>

\* the loop of commands.py:104-113 from its n-th pair on, then line 114
RECURSIVE Package_from(_, _, _)
Package_from(h, c, n) ==
    IF n > Len(Package_loop) THEN Return(h, c, Ok(FALSE))
    ELSE LET it == Package_loop[n] IN
         IF h.packages[it.action] # {}
         THEN run_call([h EXCEPT !.coros[c].step = n], c,
                       pacman_args(it.flags, h.packages[it.action]), "run")
         ELSE Package_from(h, c, n + 1)

\* commands.py:103-114
Package_do(h, c) ==
    LET co == h.coros[c] IN
    IF co.pc = "new" THEN Package_from(h, c, 1)
    ELSE LET it == Package_loop[co.step] IN
         Package_from(run_return(h, c, pacman_args(it.flags, h.packages[it.action])),
                      c, co.step + 1)

useradd_args(self) ==
    <<"useradd">> \o (IF self.homedir THEN <<"--create-home">> ELSE <<>>)
                  \o (IF self.system THEN <<"--system">> ELSE <<>>)
                  \o <<self.name>>

\* commands.py:156-167
User_do(h, c) ==
    LET co == h.coros[c] IN
    IF co.pc = "new" THEN run_call(h, c, useradd_args(co.cmd), "useradd")
    ELSE Return(run_return(h, c, useradd_args(co.cmd)), c, Ok(FALSE))

systemctl_args(self, action) == <<"systemctl", action, self.name>>

\* a faulty order of the awaits (tests C8)
Service_awaits_file_first == <<"file", "config">>

\* commands.py:133-134: the sub-commands awaited, in order
Service_awaits == <<"config", "file">>

Service_sub(self, label) == IF label = "config" THEN self.config ELSE self.file

\* commands.py:140.  A config_result without the attribute changed (None, an
\* Error) raises AttributeError before this is asked.
ShouldReload(config_result) == config_result.changed

\* commands.py:146
Service_result(config_result) == Ok(FALSE)

RECURSIVE Advance(_, _)
RECURSIVE Service_next(_, _)
RECURSIVE Service_do(_, _)

\* commands.py:133-139 from the next await on.  Awaiting a coroutine object
\* that already ran, or that is suspended under another awaiter, raises
\* RuntimeError ("cannot reuse already awaited coroutine", "coroutine is
\* being awaited already"); a new one starts running at once.
Service_next(h, c) ==
    LET self == h.coros[c].cmd
        n    == h.coros[c].step + 1
    IN  IF n > Len(Service_awaits)
        THEN run_call(h, c, systemctl_args(self, self.action), "systemctl")
        ELSE LET label == Service_awaits[n]
                 k     == Call(h, Service_sub(self, label))
             IN  IF k.h.coros[k.id].pc # "new"
                 THEN Return(k.h, c, Raise("RuntimeError"))
                 ELSE Service_do([Log(k.h, c, <<"begin", <<label>>>>)
                                      EXCEPT !.coros[c].pc = "await",
                                             !.coros[c].child = k.id,
                                             !.coros[c].step = n,
                                             !.coros[k.id].by = c,
                                             !.coros[k.id].role = label], c)

\* commands.py:132-146
Service_do(h, c) ==
    LET co   == h.coros[c]
        self == co.cmd
    IN  CASE co.pc = "new" -> Service_next(h, c)
          [] co.pc = "await" ->
                LET label == Service_awaits[co.step] IN
                IF Finished(h.coros[co.child])
                THEN Return(h, c, Raise("RuntimeError"))
                ELSE LET h1 == Advance(h, co.child)
                         ch == h1.coros[co.child]
                     IN  IF ~Finished(ch) THEN h1
                         ELSE IF ch.res.tag = "raise" THEN Return(h1, c, ch.res)
                         ELSE Service_next(
                                [Log(h1, c, <<"end", <<label>>>>)
                                    EXCEPT !.coros[c].child = 0,
                                           !.coros[c].cfg =
                                               IF label = "config" THEN ch.res ELSE @],
                                c)
          [] co.pc = "systemctl" ->
                LET h1 == run_return(h, c, systemctl_args(self, self.action)) IN
                IF ~HasChanged(co.cfg) THEN Return(h1, c, Raise("AttributeError"))
                ELSE IF ShouldReload(co.cfg)
                THEN run_call(h1, c, systemctl_args(self, "reload"), "reload")
                ELSE Return(h1, c, Service_result(co.cfg))
          [] co.pc = "reload" ->
                Return(run_return(h, c, systemctl_args(self, "reload")), c,
                       Service_result(co.cfg))

\* one resumption of coroutine c: its body runs to the next suspension
\* point or to its end
Advance(h, c) ==
    LET kind == h.coros[c].cmd.kind IN
    CASE kind = "Nothing" -> Nothing_do(h, c)
      [] kind = "Check"   -> Check_do(h, c)
      [] kind = "File"    -> File_do(h, c)
      [] kind = "Package" -> Package_do(h, c)
      [] kind = "Service" -> Service_do(h, c)
      [] kind = "User"    -> User_do(h, c)

(***************************************************************************)
(* The script (test.py).                                                   *)
(***************************************************************************)
VARIABLES
    pc,         \* where the script is
    script,     \* the constructor expressions of test.py:6-15 evaluated so far
    commands,   \* test.py:6-15, the list built from them
    packages,   \* Package.packages (commands.py:88-91)
    instance,   \* Package._instance (commands.py:87), 0 for None
    nextId,     \* the identity the next new object gets
    idx,        \* commands visited by the loop of test.py:18
    validated,  \* the list positions whose validate() was called, in order
    errors,     \* test.py:17
    printed,    \* the lines printed by test.py:25
    cache,      \* the lru_cache of Package.do
    coros,      \* the coroutine objects
    tasks,      \* the tasks gather made, as the coroutine each one steps
    taskOf,     \* for each list position, its task
    started,    \* tasks that had their first step
    taskres,    \* each task's result or exception, Pending until then
    results     \* what run_until_complete returned

vars == <<pc, script, commands, packages, instance, nextId, idx, validated, errors,
          printed, cache, coros, tasks, taskOf, started, taskres, results>>

store == [packages |-> packages, instance |-> instance, nextId |-> nextId]

heap == [coros |-> coros, cache |-> cache, packages |-> packages]

Init ==
    /\ pc = "construct"
    /\ script = <<>>
    /\ commands = <<>>
    /\ packages = [install |-> {}, remove |-> {}]
    /\ instance = 0
    /\ nextId = FirstId
    /\ idx = 0
    /\ validated = <<>>
    /\ errors = <<>>
    /\ printed = <<>>
    /\ cache = <<>>
    /\ coros = <<>>
    /\ tasks = <<>>
    /\ taskOf = <<>>
    /\ started = 0
    /\ taskres = <<>>
    /\ results = <<>>

execVars == <<cache, coros, tasks, taskOf, started, taskres, results>>
checkVars == <<idx, validated, errors, printed>>

\* test.py:6-15: the next element of the list is built; a failed assert in a
\* constructor ends the script
Construct(exprs, max) ==
    /\ pc = "construct"
    /\ Len(commands) < max
    /\ \E e \in exprs :
          LET r == New(store, e) IN
          /\ packages' = r.st.packages
          /\ instance' = r.st.instance
          /\ nextId' = r.st.nextId
          /\ script' = Append(script, e)
          /\ IF r.ok
             THEN commands' = Append(commands, r.obj) /\ pc' = pc
             ELSE commands' = commands /\ pc' = "crashed"
    /\ UNCHANGED <<checkVars, execVars>>

\* test.py:15-18: the list is complete and the loop begins
BeginValidate ==
    /\ pc = "construct"
    /\ pc' = "validate"
    /\ UNCHANGED <<script, commands, packages, instance, nextId, checkVars, execVars>>

\* a faulty loop that keeps the first error only (tests C5)
collect_first_only(command, e) ==
    IF errors = <<>> THEN <<(<<command, e>>)>> ELSE errors

\* test.py:21-22
collect(command, e) == Append(errors, <<command, e>>)

\* test.py:18-22: one iteration of the loop
\* a faulty validate that intersects in place, with &= (tests C18)
validate_packages_in_place(self, pkgs) ==
    IF self.kind = "Package"
    THEN [pkgs EXCEPT !.install = pkgs.install \cap pkgs.remove]
    ELSE pkgs

\* commands.py:39-40, 61-63, 116-119: the class's sets after validate();
\* no validate assigns anything, the & of line 117 builds a new set
validate_packages(self, pkgs) == pkgs

ValidateStep ==
    /\ pc = "validate"
    /\ idx < Len(commands)
    /\ LET command == commands[idx + 1]
           e == validate(command, packages)
       IN  /\ errors' = IF e # NoProblem THEN collect(command, e) ELSE errors
           /\ packages' = validate_packages(command, packages)
    /\ idx' = idx + 1
    /\ validated' = Append(validated, idx + 1)
    /\ UNCHANGED <<pc, script, commands, instance, nextId, printed, execVars>>

\* a faulty gate that never stops the script (tests C1)
gate_open(errs) == FALSE

\* test.py:23
gate(errs) == errs # <<>>

\* test.py:23-26: after the loop, errors are printed and SystemExit raised
Decide ==
    /\ pc = "validate"
    /\ idx = Len(commands)
    /\ IF gate(errors)
       THEN /\ printed' = [n \in 1..Len(errors) |->
                              [error |-> errors[n][2], command |-> errors[n][1]]]
            /\ pc' = "exited"
       ELSE /\ printed' = printed
            /\ pc' = "gather"
    /\ UNCHANGED <<script, commands, packages, instance, nextId, idx, validated, errors,
                   execVars>>

\* command.do() for each command of the list, in order (test.py:28)
RECURSIVE DoAll(_, _, _)
DoAll(h, cmds, ids) ==
    IF cmds = <<>> THEN [h |-> h, ids |-> ids]
    ELSE LET k == Call(h, Head(cmds)) IN DoAll(k.h, Tail(cmds), Append(ids, k.id))

\* asyncio.gather makes one task per distinct awaitable: an awaitable given
\* twice gets the task it already has
RECURSIVE Distinct(_)
Distinct(ids) ==
    IF ids = <<>> THEN <<>>
    ELSE LET front == Distinct(SubSeq(ids, 1, Len(ids) - 1))
             last  == ids[Len(ids)]
         IN  IF \E n \in 1..Len(front) : front[n] = last
             THEN front ELSE Append(front, last)

\* test.py:28
Gather ==
    /\ pc = "gather"
    /\ LET d == DoAll(heap, commands, <<>>)
           ts == Distinct(d.ids)
       IN  /\ coros' = d.h.coros
           /\ cache' = d.h.cache
           /\ tasks' = ts
           /\ taskOf' = [n \in 1..Len(d.ids) |->
                            CHOOSE t \in 1..Len(ts) : ts[t] = d.ids[n]]
           /\ taskres' = [t \in 1..Len(ts) |-> Pending]
    /\ pc' = "loop"
    /\ UNCHANGED <<script, commands, packages, instance, nextId, checkVars, started, results>>

\* a task step of the coroutine the task itself drives
StepOwn(t) ==
    LET h == Advance(heap, tasks[t])
        co == h.coros[tasks[t]]
    IN  /\ coros' = h.coros
        /\ cache' = h.cache
        /\ taskres' = [taskres EXCEPT ![t] = IF Finished(co) THEN co.res ELSE Pending]

\* The first step of each task, in the order gather made them: they are all
\* queued before the loop runs.  A task whose coroutine a Service is already
\* awaiting sends into it: into a finished coroutine that raises
\* RuntimeError; into a suspended one it reaches the future the coroutine
\* waits on, which (the C futures of CPython) is handed to this task too.
TaskFirstStep ==
    /\ pc = "loop"
    /\ started < Len(tasks)
    /\ LET t == started + 1
           co == coros[tasks[t]]
       IN  IF co.pc = "new" THEN StepOwn(t)
           ELSE /\ taskres' = [taskres EXCEPT ![t] =
                        IF Finished(co) THEN Raise("RuntimeError") ELSE Pending]
                /\ UNCHANGED <<coros, cache>>
    /\ started' = started + 1
    /\ UNCHANGED <<pc, script, commands, packages, instance, nextId, checkVars, tasks,
                   taskOf, results>>

\* The same first step with the futures written in Python: a pending future
\* resumed without a result raises inside the coroutine, which ends it; the
\* exception reaches the task.
TaskFirstStepBreaks ==
    /\ pc = "loop"
    /\ started < Len(tasks)
    /\ LET t == started + 1
           co == coros[tasks[t]]
       IN  /\ co.pc \notin {"new", "done"}
           /\ coros' = Return(heap, tasks[t], Raise("RuntimeError")).coros
           /\ taskres' = [taskres EXCEPT ![t] = Raise("RuntimeError")]
    /\ started' = started + 1
    /\ UNCHANGED <<pc, script, commands, packages, instance, nextId, checkVars, cache,
                   tasks, taskOf, results>>

\* A later step of a task: what it waited for (the sleep, the subprocess)
\* is done.  A task that shares the future of a coroutine it does not drive
\* wakes after the driver, and sends into the coroutine once that is over.
TaskResume(t) ==
    /\ pc = "loop"
    /\ started = Len(tasks)
    /\ taskres[t] = Pending
    /\ LET co == coros[tasks[t]] IN
       IF co.by = 0 THEN StepOwn(t)
       ELSE /\ Finished(co)
            /\ taskres' = [taskres EXCEPT ![t] = Raise("RuntimeError")]
            /\ UNCHANGED <<coros, cache>>
    /\ UNCHANGED <<pc, script, commands, packages, instance, nextId, checkVars, tasks,
                   taskOf, started, results>>

Raised(res) == \E t \in 1..Len(res) : res[t].tag = "raise"

\* gather (return_exceptions=False): its future is done when every task is,
\* or as soon as one task raised
gather_done(res) ==
    \/ \A t \in 1..Len(res) : res[t] # Pending
    \/ Raised(res)

\* test.py:30-31: run_until_complete returns gather's results, or raises the
\* first exception; the loop is closed and nothing runs any more
Stop ==
    /\ pc = "loop"
    /\ started = Len(tasks)
    /\ gather_done(taskres)
    /\ IF Raised(taskres)
       THEN pc' = "raised" /\ results' = results
       ELSE /\ pc' = "finished"
            /\ results' = [n \in 1..Len(taskOf) |-> taskres[taskOf[n]]]
    /\ UNCHANGED <<script, commands, packages, instance, nextId, checkVars, cache, coros,
                   tasks, taskOf, started, taskres>>

(***************************************************************************)
(* Specifications.                                                         *)
(***************************************************************************)
Foo == <<"/", "foo", "bar">>
Conf == <<"/", "etc", "s1.conf">>
Present == <<"/", "present">>
Missing == <<"/", "missing">>

\* the engine: every kind of command, top-level, with the Services whose
\* sub-command is the shared Package
EngineExprs ==
    { NothingE, CheckE(NoPath), CheckE(Present), CheckE(Missing),
      FileE(Foo), FileE(<<"rel", "x">>), FileFromE(Conf, <<"files", "s1.conf">>),
      UserE("bob"),
      PackageE({1, 2}, NoAction), PackageE({3}, "remove"), PackageE({1}, "remove"),
      ServiceE("s1", "enable", DefaultE, DefaultE),
      ServiceE("s1", "enable", FileE(<<"rel", "x">>), DefaultE),
      ServiceE("s2", "disable", PackageE({3}, NoAction), DefaultE) }

Next ==
    \/ Construct(EngineExprs, MaxCommands)
    \/ BeginValidate
    \/ ValidateStep
    \/ Decide
    \/ Gather
    \/ TaskFirstStep
    \/ TaskFirstStepBreaks
    \/ \E t \in 1..Len(tasks) : TaskResume(t)
    \/ Stop

Spec == Init /\ [][Next]_vars

\* Package constructions only: every set of names, with and without action
PkgExprs ==
    { PackageE(S, a) : S \in SUBSET (1..MaxPkgNames), a \in {NoAction, "remove"} }
        \cup { PackageE({1}, "install"), PackageE({1}, "purge") }

NextPackage ==
    \/ Construct(PkgExprs, MaxPkgCommands)
    \/ BeginValidate
    \/ ValidateStep
    \/ Decide
    \/ Gather
    \/ TaskFirstStep
    \/ \E t \in 1..Len(tasks) : TaskResume(t)
    \/ Stop

SpecPackage == Init /\ [][NextPackage]_vars

\* Services over every kind of sub-command, beside commands that run
\* concurrently with them
SvcConfigs ==
    { DefaultE, CheckE(NoPath), CheckE(Present), CheckE(Missing), FileE(Conf),
      UserE("bob"), PackageE({1}, NoAction),
      ServiceE("inner", "enable", FileE(Conf), DefaultE) }

SvcExprs ==
    { ServiceE("s1", "enable", c, DefaultE) : c \in SvcConfigs }
        \cup { ServiceE("s1", "enable", c, FileE(Foo)) :
                   c \in {DefaultE, FileE(Conf), UserE("bob"), CheckE(Missing)} }
        \cup { ServiceE("s1", "enable", FileE(Conf), CheckE(Missing)),
               ServiceE("s1", "enable", FileE(Conf), PackageE({1}, NoAction)),
               ServiceE("s1", "enable", PackageE({1}, NoAction), PackageE({1}, NoAction)),
               FileE(Foo), PackageE({2}, NoAction) }

NextService ==
    \/ Construct(SvcExprs, MaxSvcCommands)
    \/ BeginValidate
    \/ ValidateStep
    \/ Decide
    \/ Gather
    \/ TaskFirstStep
    \/ TaskFirstStepBreaks
    \/ \E t \in 1..Len(tasks) : TaskResume(t)
    \/ Stop

SpecService == Init /\ [][NextService]_vars

(***************************************************************************)
(* Properties.                                                             *)
(***************************************************************************)
ListComplete == pc \notin {"construct", "crashed"}

AfterValidation == pc \in {"exited", "gather", "loop", "finished", "raised"}

\* the list positions whose validate() raises
FailingPositions ==
    {n \in 1..Len(commands) : validate(commands[n], packages) # NoProblem}

\* the shim invocations so far, as (coroutine, log position)
RunCalls ==
    {cn \in UNION {{<<c, n>> : n \in 1..Len(coros[c].log)} : c \in 1..Len(coros)} :
        coros[cn[1]].log[cn[2]][1] = "run"}

ArgsOf(cn) == coros[cn[1]].log[cn[2]][2]

PacmanCalls(flags) ==
    {cn \in RunCalls : ArgsOf(cn)[1] = "pacman" /\ ArgsOf(cn)[2] = flags}

\* the arguments of the shim invocations coroutine c made, in order
RunsOf(c) ==
    LET runs == SelectSeq(coros[c].log, LAMBDA ev : ev[1] = "run")
    IN  [n \in 1..Len(runs) |-> runs[n][2]]

IsSortedListOf(seq, S) ==
    /\ Len(seq) = Cardinality(S)
    /\ {seq[n] : n \in 1..Len(seq)} = S
    /\ \A m, n \in 1..Len(seq) : m < n => seq[m] < seq[n]

\* C1: when validate() reports a problem for some command of the list, no
\* do() is ever called (no coroutine, no task exists) and the shim is never
\* invoked: the script stays in the validation loop or has exited.
C1_NoExecutionAfterProblem ==
    (ListComplete /\ FailingPositions # {}) =>
        /\ pc \in {"validate", "exited"}
        /\ coros = <<>>
        /\ tasks = <<>>
        /\ RunCalls = {}

\* a batch of three, some failing and some passing, has exited
C1_Witness ==
    /\ pc = "exited"
    /\ Len(commands) = 3
    /\ FailingPositions # {}
    /\ FailingPositions # 1..3

\* C2: over the whole run the shim is invoked at most once with pacman -Rs
\* and at most once with pacman -S, each time with all the names accumulated
\* for that action, in ascending order.
C2_PackageShimAtMostOnce ==
    \A it \in {[flags |-> "-Rs", action |-> "remove"],
               [flags |-> "-S", action |-> "install"]} :
        /\ Cardinality(PacmanCalls(it.flags)) <= 1
        /\ \A cn \in PacmanCalls(it.flags) :
              IsSortedListOf(SubSeq(ArgsOf(cn), 3, Len(ArgsOf(cn))),
                             packages[it.action])

\* a finished run whose list holds the Package handle more than once, with
\* one remove and one install invocation, the latter of two names
C2_Witness ==
    /\ pc = "finished"
    /\ Cardinality({n \in 1..Len(commands) : commands[n].kind = "Package"}) >= 2
    /\ Cardinality(PacmanCalls("-Rs")) = 1
    /\ \E cn \in PacmanCalls("-S") : ArgsOf(cn) = <<"pacman", "-S", 1, 2>>

\* C3: no caller of Package.do() ends in an error because the execution was
\* already started or consumed by another caller: no coroutine and no task
\* ends with RuntimeError.
C3_EveryCallerGetsTheResult ==
    /\ \A c \in 1..Len(coros) : coros[c].res # Raise("RuntimeError")
    /\ \A t \in 1..Len(taskres) : taskres[t] # Raise("RuntimeError")

\* the names expression e passes to Package with the given action
RECURSIVE NamesPassed(_, _)
NamesPassed(e, action) ==
    CASE e.e = "Package" ->
            IF e.action = action \/ (e.action = NoAction /\ action = "install")
            THEN e.names ELSE {}
      [] e.e = "Service" -> NamesPassed(e.config, action) \cup NamesPassed(e.file, action)
      [] OTHER -> {}

\* C4: after any sequence of Package constructions every construction has
\* returned the same handle, and each of the install and remove sets is the
\* union of the names passed with that action (install when none is given).
C4_MergedSetsAreUnions ==
    /\ \A a \in {"install", "remove"} :
          packages[a] = UNION {NamesPassed(script[n], a) : n \in 1..Len(script)}
    /\ \A m, n \in 1..Len(commands) :
          (commands[m].kind = "Package" /\ commands[n].kind = "Package")
              => commands[m].id = commands[n].id /\ commands[m].id = instance

\* three constructions with overlapping names and both actions
C4_Witness ==
    /\ Len(commands) = 3
    /\ \A n \in 1..3 : commands[n].kind = "Package"
    /\ packages["install"] = {1, 2}
    /\ packages["remove"] # {}
    /\ \E m, n \in 1..3 :
          /\ m # n
          /\ script[m].action = NoAction /\ script[n].action = NoAction
          /\ script[m].names \cap script[n].names # {}
          /\ script[m].names # script[n].names

\* what the loop must have collected after the first k commands
RECURSIVE ExpectedErrors(_)
ExpectedErrors(k) ==
    IF k = 0 THEN <<>>
    ELSE LET e == validate(commands[k], packages) IN
         IF e # NoProblem
         THEN Append(ExpectedErrors(k - 1), <<commands[k], e>>)
         ELSE ExpectedErrors(k - 1)

\* C5: the loop calls validate() on every command in list order, also after
\* a failure, and collects exactly the (command, problem) pairs of the
\* commands whose validate() failed; those are the lines reported.
C5_AllProblemsCollected ==
    /\ ListComplete =>
          /\ validated = [n \in 1..idx |-> n]
          /\ errors = ExpectedErrors(idx)
    /\ AfterValidation => idx = Len(commands)
    /\ pc = "exited" =>
          /\ Len(printed) = Len(errors)
          /\ \A n \in 1..Len(errors) :
                printed[n] = [error |-> errors[n][2], command |-> errors[n][1]]

\* of three commands the first and the last fail, the second passes
C5_Witness ==
    /\ pc = "exited"
    /\ Len(commands) = 3
    /\ FailingPositions = {1, 3}
    /\ Len(printed) = 2

\* C6: Package.validate() raises exactly when the install and remove sets
\* intersect, and the problem names exactly the intersection.
C6_PackageValidate ==
    ListComplete =>
        LET dup == packages["install"] \cap packages["remove"]
            checked == {n \in 1..idx : commands[n].kind = "Package"}
            raised == {n \in 1..Len(errors) : errors[n][1].kind = "Package"}
        IN  /\ Cardinality(raised) = IF dup # {} THEN Cardinality(checked) ELSE 0
            /\ \A n \in raised : errors[n][2].names = dup

\* a Package was validated with an intersection that is neither set
C6_Witness ==
    /\ pc = "exited"
    /\ errors # <<>>
    /\ errors[1][2].names # packages["install"]
    /\ errors[1][2].names # {}

\* C7: a Service whose config returns Ok(changed=True) (a File) invokes the
\* shim for (systemctl, action, name) and then for (systemctl, reload, name);
\* one whose config returns Ok(changed=False) or Failed (a User, a Check with
\* a path, existing or not) invokes it for (systemctl, action, name) only.
C7_ReloadOnlyAfterChange ==
    \A c \in 1..Len(coros) :
        LET self == coros[c].cmd IN
        (/\ self.kind = "Service"
         /\ Finished(coros[c])
         /\ self.file.kind = "Nothing"
         /\ self.config.kind \in {"File", "User", "Check"}
         /\ self.config.kind = "Check" => self.config.exists # NoPath)
        => RunsOf(c) =
              IF self.config.kind = "File"
              THEN << <<"systemctl", self.action, self.name>>,
                      <<"systemctl", "reload", self.name>> >>
              ELSE << <<"systemctl", self.action, self.name>> >>

\* C8: within a Service the file sub-command begins only after the config
\* sub-command has run to completion, and the systemctl invocation is made
\* only after the file sub-command has run to completion, whatever the
\* other tasks do in between.
C8_ConfigThenFileThenAction ==
    \A c \in 1..Len(coros) :
        coros[c].cmd.kind = "Service" =>
            /\ \A d \in 1..Len(coros) :
                  (coros[d].by = c /\ coros[d].role = "file") =>
                      \E g \in 1..Len(coros) :
                          /\ coros[g].by = c
                          /\ coros[g].role = "config"
                          /\ Finished(coros[g])
            /\ RunsOf(c) # <<>> =>
                  \E d \in 1..Len(coros) :
                      /\ coros[d].by = c
                      /\ coros[d].role = "file"
                      /\ Finished(coros[d])

\* a Service with File sub-commands has invoked systemctl while another
\* task is suspended in the middle of its own execution
C8_Witness ==
    \E c, o \in 1..Len(coros) :
        /\ coros[c].cmd.kind = "Service"
        /\ coros[c].cmd.config.kind = "File"
        /\ coros[c].cmd.file.kind = "File"
        /\ RunsOf(c) # <<>>
        /\ o # c
        /\ coros[o].by = 0
        /\ coros[o].pc \notin {"new", "done"}

\* C9: a run that passed validation ends only after every do() it launched
\* has completed, also when one of them failed (here: lists of Check, File,
\* User and Nothing commands).
C9_RunEndsAfterAllComplete ==
    (/\ pc \in {"finished", "raised"}
     /\ \A n \in 1..Len(commands) :
           commands[n].kind \in {"Check", "File", "User", "Nothing"})
    => /\ Len(taskOf) = Len(commands)
       /\ \A c \in 1..Len(coros) : Finished(coros[c])

\* C10: a Service's do() returns Ok(changed=False) whatever its sub-commands
\* are (here: the default no-op sub-commands).
C10_ServiceReturnsOk ==
    \A c \in 1..Len(coros) :
        LET self == coros[c].cmd IN
        (/\ self.kind = "Service"
         /\ Finished(coros[c])
         /\ self.config = DefaultNothing
         /\ self.file = DefaultNothing)
        => coros[c].res = Ok(FALSE)

\* C11: the do() of a Check with a declared path returns Ok(changed=False)
\* when the path exists and otherwise returns (does not raise) an Error.
C11_CheckReturnsResult ==
    \A c \in 1..Len(coros) :
        LET self == coros[c].cmd IN
        (self.kind = "Check" /\ Finished(coros[c]) /\ self.exists # NoPath)
        => IF self.exists \in ExistingPaths
           THEN coros[c].res = Ok(FALSE)
           ELSE coros[c].res.tag = "Error"

\* C12: every do() that completes, of every kind of command, yields an Ok
\* or an Error, never another shape such as no value.
C12_ResultShape ==
    \A c \in 1..Len(coros) :
        (Finished(coros[c]) /\ coros[c].res.tag # "raise")
        => coros[c].res.tag \in {"Ok", "Error"}

\* C13: a File built without a source has the base name of its destination
\* as source; its do() invokes the shim once, with (cp, source, destination)
\* in that order, and returns Ok(changed=True).
C13_FileCopies ==
    /\ \A n \in 1..Len(commands) :
          commands[n].kind = "File" =>
              /\ commands[n].destination = script[n].destination
              /\ commands[n].source =
                    IF script[n].source = NoPath
                    THEN <<script[n].destination[Len(script[n].destination)]>>
                    ELSE script[n].source
    /\ \A c \in 1..Len(coros) :
          LET self == coros[c].cmd
              once == << <<"cp", self.source, self.destination>> >>
          IN  self.kind = "File" =>
                  /\ RunsOf(c) \in {<<>>, once}
                  /\ Finished(coros[c]) =>
                        RunsOf(c) = once /\ coros[c].res = Ok(TRUE)

\* File('/foo/bar') has run: cp bar /foo/bar
C13_Witness ==
    \E c \in 1..Len(coros) :
        /\ coros[c].cmd.kind = "File"
        /\ Finished(coros[c])
        /\ coros[c].res = Ok(TRUE)
        /\ RunsOf(c) = << <<"cp", <<"bar">>, <<"/", "foo", "bar">> >> >>

\* the File objects in a command: itself, or the sub-commands of a Service
RECURSIVE FilesOf(_)
FilesOf(cmd) ==
    CASE cmd.kind = "File" -> {cmd}
      [] cmd.kind = "Service" -> FilesOf(cmd.config) \cup FilesOf(cmd.file)
      [] OTHER -> {}

\* the destinations of the File expressions in a constructor expression
RECURSIVE DestinationsIn(_)
DestinationsIn(e) ==
    CASE e.e = "File" -> {e.destination}
      [] e.e = "Service" -> DestinationsIn(e.config) \cup DestinationsIn(e.file)
      [] OTHER -> {}

\* C14: constructing a File with a relative destination ends the script at
\* that expression: no validate() and no do() of any command ever runs, and
\* no File with a relative destination is in the list.
C14_RelativeFileRejected ==
    /\ \A n \in 1..Len(commands) :
          \A f \in FilesOf(commands[n]) : f.destination[1] = "/"
    /\ \A n \in 1..Len(script) :
          (\E d \in DestinationsIn(script[n]) : d[1] # "/") =>
              /\ n = Len(script)
              /\ Len(commands) = n - 1
              /\ pc = "crashed"
    /\ pc = "crashed" =>
          /\ validated = <<>>
          /\ errors = <<>>
          /\ coros = <<>>
          /\ tasks = <<>>

\* two commands were built, then a File with a relative destination
C14_Witness ==
    /\ pc = "crashed"
    /\ Len(commands) = 2
    /\ script[3].e = "File"
    /\ script[3].destination[1] # "/"

IsPrefix(a, b) == Len(a) <= Len(b) /\ SubSeq(b, 1, Len(a)) = a

\* the shim events of one invocation with the given flags, none for no names
PacmanEvents(flags, names) ==
    IF names = {} THEN <<>>
    ELSE << <<"run", <<"pacman", flags>> \o sorted(names)>>,
            <<"ran", <<"pacman", flags>> \o sorted(names)>> >>

\* C15: the Package execution issues the removal and sees it complete before
\* it issues the installation; an empty set gets no invocation; the execution
\* that returns has done all of it and returns Ok(changed = FALSE).
C15_RemoveBeforeInstall ==
    \A c \in 1..Len(coros) :
        LET expected == PacmanEvents("-Rs", packages.remove)
                            \o PacmanEvents("-S", packages.install)
        IN  coros[c].cmd.kind = "Package" =>
                /\ IsPrefix(coros[c].log, expected)
                /\ (Finished(coros[c]) /\ coros[c].res.tag # "raise") =>
                      coros[c].log = expected /\ coros[c].res = Ok(FALSE)

\* a finished Package execution that both removed and installed
C15_Witness ==
    \E c \in 1..Len(coros) :
        /\ coros[c].cmd.kind = "Package"
        /\ coros[c].res = Ok(FALSE)
        /\ packages.remove # {}
        /\ packages.install # {}
        /\ Len(coros[c].log) = 4

\* C16: in a run that passed the validate phase, do() is never called on a
\* Check without a path, be it a list entry or the config or file of a Service.
C16_PathlessCheckNeverExecuted ==
    \A c \in 1..Len(coros) :
        ~(coros[c].cmd.kind = "Check" /\ coros[c].cmd.exists = NoPath)

\* C17: a Service whose config fails (a Check of a missing path) does not
\* stop there: its file sub-command is still executed and the shim is still
\* invoked for (systemctl, action, name), and not for the reload.
C17_ServiceContinuesAfterFailedConfig ==
    \A c \in 1..Len(coros) :
        LET self == coros[c].cmd IN
        (/\ self.kind = "Service"
         /\ self.config.kind = "Check"
         /\ self.config.exists # NoPath
         /\ self.config.exists \notin ExistingPaths
         /\ Finished(coros[c]))
        => /\ \E d \in 1..Len(coros) :
                 coros[d].by = c /\ coros[d].role = "file"
           /\ RunsOf(c) = << <<"systemctl", self.action, self.name>> >>

\* C18: a call of validate(), for every kind of command, leaves everything
\* but the script's own bookkeeping as it was: no shim invocation and no do()
\* is started, and the Package sets, the cached execution and every
\* command's fields are unchanged.
C18_ValidateHasNoEffect ==
    [][(pc = "validate" /\ idx' = idx + 1)
       => UNCHANGED <<commands, packages, instance, nextId, execVars>>]_vars

\* the whole list was validated, a Package over non-empty sets and a Check
\* among its entries
C18_Witness ==
    /\ pc = "validate"
    /\ idx = Len(commands)
    /\ packages.install # {}
    /\ packages.remove # {}
    /\ \E n \in 1..idx : commands[n].kind = "Package"
    /\ \E n \in 1..idx : commands[n].kind = "Check"
    /\ coros = <<>>
    /\ cache = <<>>

\* the list positions holding a Package
PackagePositions == {n \in 1..Len(commands) : commands[n].kind = "Package"}

\* C19: all Package entries of the list are one and the same object, so
\* validate() gives each of them the same verdict whatever it was built
\* with; the loop collects one and the same problem for each of them when
\* the install and remove sets meet, and none for any when they do not.
C19_OneVerdictForAllPackages ==
    ListComplete =>
        LET dup == packages.install \cap packages.remove
            collected == {n \in 1..Len(errors) : errors[n][1].kind = "Package"}
        IN  /\ \A m, n \in PackagePositions :
                  /\ commands[m] = commands[n]
                  /\ validate(commands[m], packages) = validate(commands[n], packages)
            /\ \A n \in PackagePositions :
                  (validate(commands[n], packages) # NoProblem) <=> (dup # {})
            /\ AfterValidation =>
                  /\ Cardinality(collected) =
                        IF dup # {} THEN Cardinality(PackagePositions) ELSE 0
                  /\ \A m, n \in collected : errors[m] = errors[n]

\* three Package entries built with different arguments, one of them with
\* names outside the intersection, gave three problems
C19_Witness ==
    /\ pc = "exited"
    /\ Cardinality(PackagePositions) = 3
    /\ Len(errors) = 3
    /\ script[1] # script[2]
    /\ script[2] # script[3]
    /\ script[1] # script[3]
    /\ \E n \in 1..3 :
          script[n].names \cap packages.install \cap packages.remove = {}

====
